---- MODULE Spec2Model ----
(***************************************************************************)
(* Model of the WFS client of src/lib/versions/1.0.0.js: the Client class  *)
(* (constructor, _ensureVersion, _negociateVersion, _request,              *)
(* capabilities) and the version negotiation it runs against a server      *)
(* whose replies are arbitrary.                                            *)
(*                                                                         *)
(* A JavaScript string is a sequence of tokens.  Version strings are       *)
(* spelled one character per token (<<"1", ".", "0", ".", "0">>), so that  *)
(* semver's parsing and ordering are computed on the characters; other     *)
(* strings are one token (<<"WFS">>).  undefined and null are the two      *)
(* reserved one-token values below.                                        *)
(***************************************************************************)
EXTENDS Integers, Sequences, FiniteSets, TLC

VARIABLES instance, version, queryStringToAppend, calls

vars == <<instance, version, queryStringToAppend, calls>>

(* Number of capabilities() calls made on the instance, concurrent or not. *)
MaxCalls == 2

CallIds == 1..MaxCalls

----------------------------------------------------------------------------
(* JavaScript values *)

undefined == <<"#undefined">>
null == <<"#null">>
EmptyString == <<>>

V090 == <<"0", ".", "9", ".", "0">>
V100 == <<"1", ".", "0", ".", "0">>
V105 == <<"1", ".", "0", ".", "5">>
V110 == <<"1", ".", "1", ".", "0">>
V150 == <<"1", ".", "5", ".", "0">>
V200 == <<"2", ".", "0", ".", "0">>
Vv200 == <<"v", "2", ".", "0", ".", "0">>
V300 == <<"3", ".", "0", ".", "0">>
V1100 == <<"1", "1", ".", "0", ".", "0">>
V20 == <<"2", ".", "0">>
V0100 == <<"0", "1", ".", "0", ".", "0">>

IsString(v) == v # undefined /\ v # null

(* JavaScript truthiness of undefined, null or a string *)
Truthy(v) == IsString(v) /\ v # EmptyString

----------------------------------------------------------------------------
(* semver (SemverComparator): strict parsing and ordering of versions *)

DigitChars == {"0", "1", "2", "3", "4", "5", "6", "7", "8", "9"}

DigitVal(c) ==
  CASE c = "0" -> 0 [] c = "1" -> 1 [] c = "2" -> 2 [] c = "3" -> 3
    [] c = "4" -> 4 [] c = "5" -> 5 [] c = "6" -> 6 [] c = "7" -> 7
    [] c = "8" -> 8 [] c = "9" -> 9

RECURSIVE SplitDot(_)
SplitDot(s) ==
  IF s = <<>> THEN << <<>> >>
  ELSE IF Head(s) = "." THEN << <<>> >> \o SplitDot(Tail(s))
  ELSE LET r == SplitDot(Tail(s))
       IN  << <<Head(s)>> \o Head(r) >> \o Tail(r)

(* a numeric identifier: 0|[1-9]\d* *)
IsNumericId(p) ==
  /\ Len(p) >= 1
  /\ \A i \in 1..Len(p) : p[i] \in DigitChars
  /\ (Len(p) > 1 => p[1] # "0")

RECURSIVE NumVal(_)
NumVal(p) ==
  IF p = <<>> THEN 0
  ELSE NumVal(SubSeq(p, 1, Len(p) - 1)) * 10 + DigitVal(p[Len(p)])

StripV(s) == IF s # <<>> /\ Head(s) = "v" THEN Tail(s) ELSE s

(* semver.valid(v) is non-null: v is a string of the form v?N.N.N *)
semverValid(v) ==
  /\ IsString(v)
  /\ LET parts == SplitDot(StripV(v))
     IN  /\ Len(parts) = 3
         /\ \A i \in 1..3 : IsNumericId(parts[i])

(* new SemVer(v): <<major, minor, patch>> of a valid version *)
semverParse(v) ==
  LET parts == SplitDot(StripV(v))
  IN  <<NumVal(parts[1]), NumVal(parts[2]), NumVal(parts[3])>>

(* SemVer.compare: -1, 0 or 1 *)
semverCompare(a, b) ==
  LET x == semverParse(a)
      y == semverParse(b)
  IN  IF x[1] # y[1] THEN (IF x[1] < y[1] THEN -1 ELSE 1)
      ELSE IF x[2] # y[2] THEN (IF x[2] < y[2] THEN -1 ELSE 1)
      ELSE IF x[3] # y[3] THEN (IF x[3] < y[3] THEN -1 ELSE 1)
      ELSE 0

(* semver.gt / semver.lt / semver.lte throw a TypeError on an invalid operand *)
semverThrows(a, b) == ~semverValid(a) \/ ~semverValid(b)

semverGt(a, b) == semverCompare(a, b) = 1

semverLt(a, b) == semverCompare(a, b) = -1

----------------------------------------------------------------------------
(* Module configuration *)

(* Object.keys(supportedVersions), in insertion order *)
supportedVersionsKeys == <<V100, V110, V200>>

SupportedVersionSet == {supportedVersionsKeys[i] : i \in 1..Len(supportedVersionsKeys)}

(* properties every object literal inherits from Object.prototype *)
ObjectPrototypeKeys ==
  {<<"constructor">>, <<"toString">>, <<"valueOf">>, <<"hasOwnProperty">>,
   <<"__proto__">>}

(* key in supportedVersions: own and inherited properties *)
InSupportedVersions(key) ==
  key \in SupportedVersionSet \cup ObjectPrototypeKeys

(* supportedVersions[key].parseCapabilities is a function *)
HasParseCapabilities(key) == key \in SupportedVersionSet

----------------------------------------------------------------------------
(* Objects: functions from property names to values *)

EmptyObject == [k \in {} |-> EmptyString]

(* {...a, ...b} *)
ObjectSpread(a, b) ==
  [k \in DOMAIN a \cup DOMAIN b |-> IF k \in DOMAIN b THEN b[k] ELSE a[k]]

----------------------------------------------------------------------------
(* Inputs *)

Urls == {EmptyString, <<"http://example.org/wfs">>}

OptionVersions == {undefined, EmptyString, V100, V110, V200, V300, <<"toString">>}

(* options.queryStringToAppend: <<>> when the option is not given, <<o>>   *)
(* when it is the object o                                                *)
OptionQueryStrings ==
  {<<>>,
   <<[map |-> <<"roads">>]>>,
   <<[service |-> <<"WMS">>, request |-> <<"GetFeature">>, version |-> V300]>>}

(* Replies of the server to a probe, whose content the negotiation does   *)
(* not inspect: a transport or XML-parse failure, or a parsed             *)
(* document with its root element's name and version attribute (null when *)
(* the attribute is absent).                                              *)
TransportFailure == [status |-> "error", root |-> "", version |-> null]

Document(root, v) == [status |-> "ok", root |-> root, version |-> v]

AttrVersions ==
  {null, EmptyString, V20, V0100,
   V090, V100, V105, V110, V150, V200, Vv200, V300, V1100}

Docs ==
  {TransportFailure, Document("ServiceExceptionReport", null)}
    \cup {Document("WFS_Capabilities", v) : v \in AttrVersions}

(* XML content: a node has its text and, for each selector that matches   *)
(* below it, the matched nodes in document order                          *)
TextNode(text) == [text |-> text, children |-> EmptyObject]

ServiceNode ==
  [text |-> EmptyString,
   children |-> ("./wfs:Name" :> <<TextNode(<<"Test Server">>)>>)
                  @@ ("./wfs:Title" :> <<TextNode(<<"A test server">>)>>)]

RoadsNode ==
  [text |-> EmptyString,
   children |-> ("./wfs:Name" :> <<TextNode(<<"roads">>)>>)
                  @@ ("./wfs:Title" :> <<TextNode(<<"Roads">>)>>)]

RiversNode ==
  [text |-> EmptyString,
   children |-> ("./wfs:Name" :> <<TextNode(<<"rivers">>)>>)]

(* a capabilities document with its Service and FeatureType elements *)
CapabilitiesDocument(v, service, featureTypes) ==
  [status |-> "ok", root |-> "WFS_Capabilities", version |-> v,
   children |-> ("./wfs:Service" :> service)
                  @@ ("./wfs:FeatureTypeList/wfs:FeatureType" :> featureTypes)]

(* Replies to the final request of capabilities(), whose root and version *)
(* the client does not inspect                                           *)
FetchDocs ==
  {TransportFailure, Document("ServiceExceptionReport", null),
   Document("WFS_Capabilities", V110),
   CapabilitiesDocument(V110, <<ServiceNode>>, <<>>),
   CapabilitiesDocument(V110, <<ServiceNode>>, <<RoadsNode, RiversNode>>)}

NoDoc == [status |-> "none", root |-> "", version |-> null]

----------------------------------------------------------------------------
(* Errors *)

NoError == [name |-> "", message |-> "", detected |-> null, candidate |-> null]

Err(name, message) ==
  [name |-> name, message |-> message, detected |-> null, candidate |-> null]

UnreadableVersionError == Err("Error", "Unable to read version in Capabilities")

(* 'Version negociation has failed. Lowest version supported by server is ' *)
(*   + detectedVersion + ' but candidateVersion was ' + candidateVersion    *)
NoOverlapError(detectedVersion, candidateVersion) ==
  [name |-> "Error",
   message |-> "Version negociation has failed. Lowest version supported by server is",
   detected |-> detectedVersion, candidate |-> candidateVersion]

RecoveryError == Err("Error", "Version negociation has failed (recovery mode)")

(* thrown by semver on an invalid operand *)
InvalidVersionError == Err("TypeError", "Invalid Version")

(* thrown by got or xml.parse *)
RequestError == Err("RequestError", "request failed")

(* supportedVersions[version].parseCapabilities is not a function *)
NotAFunctionError == Err("TypeError", "parseCapabilities is not a function")

----------------------------------------------------------------------------
(* Schemas of version 1.0.0 and the document mapper *)

(* './wfs:Name': 'name' *)
Field(path, dest) == [path |-> path, dest |-> dest, multi |-> FALSE, type |-> ""]

(* Variant of types: the FeatureType selector of Main leaves out the       *)
(* FeatureTypeList element                                                 *)
types_wrongSelector ==
  [Main |->
     {[path |-> "./wfs:Service", dest |-> "service", multi |-> FALSE, type |-> "Service"],
      [path |-> "./wfs:FeatureType", dest |-> "featureTypes",
       multi |-> TRUE, type |-> "FeatureType"]},
   Service |->
     {Field("./wfs:Name", "name"), Field("./wfs:Title", "title"),
      Field("./wfs:Abstract", "abstract"), Field("./wfs:Keywords", "keywords"),
      Field("./wfs:OnlineResource", "location"), Field("./wfs:Fees", "fees"),
      Field("./wfs:AccessConstraints", "accessConstraints")},
   FeatureType |->
     {Field("./wfs:Name", "name"), Field("./wfs:Title", "title"),
      Field("./wfs:Abstract", "abstract"), Field("./wfs:Keywords", "keywords")}]

types ==
  [Main |->
     {[path |-> "./wfs:Service", dest |-> "service", multi |-> FALSE, type |-> "Service"],
      [path |-> "./wfs:FeatureTypeList/wfs:FeatureType", dest |-> "featureTypes",
       multi |-> TRUE, type |-> "FeatureType"]},
   Service |->
     {Field("./wfs:Name", "name"), Field("./wfs:Title", "title"),
      Field("./wfs:Abstract", "abstract"), Field("./wfs:Keywords", "keywords"),
      Field("./wfs:OnlineResource", "location"), Field("./wfs:Fees", "fees"),
      Field("./wfs:AccessConstraints", "accessConstraints")},
   FeatureType |->
     {Field("./wfs:Name", "name"), Field("./wfs:Title", "title"),
      Field("./wfs:Abstract", "abstract"), Field("./wfs:Keywords", "keywords")}]

(* the nodes a selector matches below a node, in document order *)
find(node, path) ==
  IF "children" \in DOMAIN node /\ path \in DOMAIN node.children
  THEN node.children[path]
  ELSE <<>>

(* buildObject of the mapper: one key per mapping; a single mapping takes  *)
(* the first match and leaves the key out without one, a multi mapping     *)
(* gives the list of all matches, empty without one; a match is mapped     *)
(* with the nested schema, or to its text                                  *)
RECURSIVE buildObject(_, _)
RECURSIVE buildList(_, _)
RECURSIVE buildValue(_, _)
buildValue(node, mapping) ==
  IF mapping.type # "" THEN buildObject(node, mapping.type) ELSE node.text

buildList(nodes, mapping) ==
  IF nodes = <<>> THEN <<>>
  ELSE <<buildValue(Head(nodes), mapping)>> \o buildList(Tail(nodes), mapping)

buildObject(node, typeName) ==
  LET kept == {m \in types[typeName] : m.multi \/ find(node, m.path) # <<>>}
  IN  [dest \in {m.dest : m \in kept} |->
         LET m == CHOOSE x \in kept : x.dest = dest
         IN  IF m.multi
             THEN buildList(find(node, m.path), m)
             ELSE buildValue(Head(find(node, m.path)), m)]

(* exports.parseCapabilities *)
parseCapabilities(xmlDoc) == buildObject(xmlDoc, "Main")

(* object[key], undefined without the key *)
HasKey(object, key) == key \in DOMAIN object

----------------------------------------------------------------------------
(* Client *)

(* findLast(supportedVersionsKeys, v => semver.lt(v, bound)) below index n *)
RECURSIVE findLastFrom(_, _)
findLastFrom(n, bound) ==
  IF n = 0 THEN undefined
  ELSE IF semverLt(supportedVersionsKeys[n], bound) THEN supportedVersionsKeys[n]
  ELSE findLastFrom(n - 1, bound)

findLastSmaller(bound) == findLastFrom(Len(supportedVersionsKeys), bound)

Return(v) == [act |-> "return", value |-> v, error |-> NoError]

Throw(e) == [act |-> "throw", value |-> undefined, error |-> e]

Recurse(v) == [act |-> "recurse", value |-> v, error |-> NoError]

(* rootNode.attr('version') ? rootNode.attr('version').value() : null *)
detectedVersionOf(doc) == doc.version

(* Variants of negociateCapabilities, each with one slip:                  *)
(* a matching version is probed again instead of returned                  *)
negociateCapabilities_reprobe(candidateVersion, detectedVersion) ==
  IF ~Truthy(detectedVersion) \/ ~semverValid(detectedVersion)
  THEN Throw(UnreadableVersionError)
  ELSE IF detectedVersion = candidateVersion THEN Recurse(detectedVersion)
  ELSE IF semverThrows(detectedVersion, candidateVersion)
  THEN Throw(InvalidVersionError)
  ELSE IF semverGt(detectedVersion, candidateVersion)
  THEN Throw(NoOverlapError(detectedVersion, candidateVersion))
  ELSE IF InSupportedVersions(detectedVersion) THEN Return(detectedVersion)
  ELSE Recurse(findLastSmaller(detectedVersion))

(* a smaller detected version is never accepted as it is *)
negociateCapabilities_noSupportedCheck(candidateVersion, detectedVersion) ==
  IF ~Truthy(detectedVersion) \/ ~semverValid(detectedVersion)
  THEN Throw(UnreadableVersionError)
  ELSE IF detectedVersion = candidateVersion THEN Return(detectedVersion)
  ELSE IF semverThrows(detectedVersion, candidateVersion)
  THEN Throw(InvalidVersionError)
  ELSE IF semverGt(detectedVersion, candidateVersion)
  THEN Throw(NoOverlapError(detectedVersion, candidateVersion))
  ELSE Recurse(findLastSmaller(detectedVersion))

(* the operands of semver.gt are swapped *)
negociateCapabilities_swappedGt(candidateVersion, detectedVersion) ==
  IF ~Truthy(detectedVersion) \/ ~semverValid(detectedVersion)
  THEN Throw(UnreadableVersionError)
  ELSE IF detectedVersion = candidateVersion THEN Return(detectedVersion)
  ELSE IF semverThrows(detectedVersion, candidateVersion)
  THEN Throw(InvalidVersionError)
  ELSE IF semverGt(candidateVersion, detectedVersion)
  THEN Throw(NoOverlapError(detectedVersion, candidateVersion))
  ELSE IF InSupportedVersions(detectedVersion) THEN Return(detectedVersion)
  ELSE Recurse(findLastSmaller(detectedVersion))

(* the next candidate is searched below the candidate, not the detected    *)
(* version                                                                 *)
negociateCapabilities_belowCandidate(candidateVersion, detectedVersion) ==
  IF ~Truthy(detectedVersion) \/ ~semverValid(detectedVersion)
  THEN Throw(UnreadableVersionError)
  ELSE IF detectedVersion = candidateVersion THEN Return(detectedVersion)
  ELSE IF semverThrows(detectedVersion, candidateVersion)
  THEN Throw(InvalidVersionError)
  ELSE IF semverGt(detectedVersion, candidateVersion)
  THEN Throw(NoOverlapError(detectedVersion, candidateVersion))
  ELSE IF InSupportedVersions(detectedVersion) THEN Return(detectedVersion)
  ELSE Recurse(findLastSmaller(candidateVersion))

(* the version attribute is not passed through semver.valid *)
negociateCapabilities_noValid(candidateVersion, detectedVersion) ==
  IF ~Truthy(detectedVersion)
  THEN Throw(UnreadableVersionError)
  ELSE IF detectedVersion = candidateVersion THEN Return(detectedVersion)
  ELSE IF semverThrows(detectedVersion, candidateVersion)
  THEN Throw(InvalidVersionError)
  ELSE IF semverGt(detectedVersion, candidateVersion)
  THEN Throw(NoOverlapError(detectedVersion, candidateVersion))
  ELSE IF InSupportedVersions(detectedVersion) THEN Return(detectedVersion)
  ELSE Recurse(findLastSmaller(detectedVersion))

(* _negociateVersion, the root is WFS_Capabilities *)
negociateCapabilities(candidateVersion, detectedVersion) ==
  IF ~Truthy(detectedVersion) \/ ~semverValid(detectedVersion)
  THEN Throw(UnreadableVersionError)
  ELSE IF detectedVersion = candidateVersion THEN Return(detectedVersion)
  ELSE IF semverThrows(detectedVersion, candidateVersion)
  THEN Throw(InvalidVersionError)
  ELSE IF semverGt(detectedVersion, candidateVersion)
  THEN Throw(NoOverlapError(detectedVersion, candidateVersion))
  ELSE IF InSupportedVersions(detectedVersion) THEN Return(detectedVersion)
  ELSE Recurse(findLastSmaller(detectedVersion))

(* _negociateVersion, recovery mode *)
negociateRecovery(candidateVersion) ==
  IF semverThrows(supportedVersionsKeys[Len(supportedVersionsKeys)], candidateVersion)
  THEN Throw(InvalidVersionError)
  ELSE LET nextCandidateVersion == findLastSmaller(candidateVersion)
       IN  IF Truthy(nextCandidateVersion)
           THEN Recurse(nextCandidateVersion)
           ELSE Throw(RecoveryError)

(* Variant of negociateStep: a failed request is caught and handled as an  *)
(* unreadable reply                                                        *)
negociateStep_catchesRequestError(candidateVersion, doc) ==
  IF doc.status = "error" THEN negociateRecovery(candidateVersion)
  ELSE IF doc.root = "WFS_Capabilities"
  THEN negociateCapabilities(candidateVersion, detectedVersionOf(doc))
  ELSE negociateRecovery(candidateVersion)

(* _negociateVersion after its request has settled with doc *)
negociateStep(candidateVersion, doc) ==
  IF doc.status = "error" THEN Throw(RequestError)
  ELSE IF doc.root = "WFS_Capabilities"
  THEN negociateCapabilities(candidateVersion, detectedVersionOf(doc))
  ELSE negociateRecovery(candidateVersion)

(* the query _request sends *)
requestQuery(extra, query) ==
  ObjectSpread(ObjectSpread([service |-> <<"WFS">>], extra), query)

GetCapabilities(v) == [request |-> <<"GetCapabilities">>, version |-> v]

Request(by, extra, v) == [by |-> by, query |-> requestQuery(extra, GetCapabilities(v))]

(* supportedVersions[key].parseCapabilities(xmlDoc): the object mapped    *)
(* and the version whose schemas mapped it                                *)
parseCapabilitiesOf(key, xmlDoc) ==
  [bundle |-> key, object |-> parseCapabilities(xmlDoc)]

NoResult == [bundle |-> undefined, object |-> EmptyObject]

(* capabilities.featureTypes || [] *)
featureTypesOrEmpty(object) ==
  IF HasKey(object, "featureTypes") THEN object["featureTypes"] ELSE <<>>

(* A call is capabilities(), or featureTypes() with the capabilities() it  *)
(* awaits: result is what capabilities() resolved to, returned holds what  *)
(* featureTypes() resolved to (<<>> before that).                          *)
IdleCall ==
  [pc |-> "idle", candidateVersion |-> undefined, response |-> NoDoc,
   version |-> undefined, error |-> NoError, reqs |-> <<>>,
   result |-> NoResult, returned |-> <<>>]

Init ==
  /\ instance = "none"
  /\ version = undefined
  /\ queryStringToAppend = EmptyObject
  /\ calls = [i \in CallIds |-> IdleCall]

(* new Client(url, options) *)
constructor(url, optVersion, optQueryString) ==
  /\ instance = "none"
  /\ UNCHANGED calls
  /\ IF ~Truthy(url)
     THEN /\ instance' = "threw"
          /\ UNCHANGED <<version, queryStringToAppend>>
     ELSE /\ queryStringToAppend' =
               IF optQueryString = <<>> THEN EmptyObject ELSE optQueryString[1]
          /\ IF Truthy(optVersion)
             THEN IF ~InSupportedVersions(optVersion)
                  THEN /\ instance' = "threw"
                       /\ UNCHANGED version
                  ELSE /\ instance' = "ok"
                       /\ version' = optVersion
             ELSE /\ instance' = "ok"
                  /\ UNCHANGED version

(* Variant of capabilities: _ensureVersion negotiates without looking at   *)
(* this.version                                                            *)
capabilities_alwaysNegociates(i) ==
  /\ instance = "ok"
  /\ calls[i].pc = "idle"
  /\ \A j \in CallIds : j < i => calls[j].pc # "idle"
  /\ UNCHANGED <<instance, version, queryStringToAppend>>
  /\ LET c == supportedVersionsKeys[Len(supportedVersionsKeys)]
     IN  calls' = [calls EXCEPT ![i].pc = "probe",
                                ![i].candidateVersion = c,
                                ![i].reqs = <<Request("_negociateVersion", queryStringToAppend, c)>>]

(* capabilities() up to its first suspension: _ensureVersion either starts *)
(* _negociateVersion with the last supported version, whose request is     *)
(* issued at once, or returns this.version.                                *)
capabilities(i) ==
  /\ instance = "ok"
  /\ calls[i].pc = "idle"
  /\ \A j \in CallIds : j < i => calls[j].pc # "idle"
  /\ UNCHANGED <<instance, version, queryStringToAppend>>
  /\ IF ~Truthy(version)
     THEN LET c == supportedVersionsKeys[Len(supportedVersionsKeys)]
          IN  calls' = [calls EXCEPT ![i].pc = "probe",
                                     ![i].candidateVersion = c,
                                     ![i].reqs = <<Request("_negociateVersion", queryStringToAppend, c)>>]
     ELSE calls' = [calls EXCEPT ![i].pc = "ensured",
                                 ![i].version = version]

(* got settles the outstanding request of call i *)
serverReply(i, doc) ==
  /\ calls[i].pc \in {"probe", "fetch"}
  /\ calls[i].pc = "probe" => doc \in Docs
  /\ calls[i].pc = "fetch" => doc \in FetchDocs
  /\ calls[i].response = NoDoc
  /\ calls' = [calls EXCEPT ![i].response = doc]
  /\ UNCHANGED <<instance, version, queryStringToAppend>>

(* Variant of negociateVersion: the candidate is stored in this.version    *)
(* before the reply is examined, so a failure leaves it there              *)
negociateVersion_cachesCandidate(i) ==
  /\ calls[i].pc = "probe"
  /\ calls[i].response # NoDoc
  /\ UNCHANGED <<instance, queryStringToAppend>>
  /\ LET r == negociateStep(calls[i].candidateVersion, calls[i].response)
     IN  CASE r.act = "return" ->
                /\ version' = r.value
                /\ calls' = [calls EXCEPT ![i].pc = "ensured",
                                          ![i].response = NoDoc,
                                          ![i].version = r.value]
           [] r.act = "throw" ->
                /\ version' = calls[i].candidateVersion
                /\ calls' = [calls EXCEPT ![i].pc = "failed",
                                          ![i].response = NoDoc,
                                          ![i].error = r.error]
           [] r.act = "recurse" ->
                /\ UNCHANGED version
                /\ calls' = [calls EXCEPT ![i].candidateVersion = r.value,
                                          ![i].response = NoDoc,
                                          ![i].reqs = Append(@, Request("_negociateVersion", queryStringToAppend, r.value))]

(* _negociateVersion resumes after await this._request(...); a returned    *)
(* version is assigned to this.version by _ensureVersion                   *)
negociateVersion(i) ==
  /\ calls[i].pc = "probe"
  /\ calls[i].response # NoDoc
  /\ UNCHANGED <<instance, queryStringToAppend>>
  /\ LET r == negociateStep(calls[i].candidateVersion, calls[i].response)
     IN  CASE r.act = "return" ->
                /\ version' = r.value
                /\ calls' = [calls EXCEPT ![i].pc = "ensured",
                                          ![i].response = NoDoc,
                                          ![i].version = r.value]
           [] r.act = "throw" ->
                /\ UNCHANGED version
                /\ calls' = [calls EXCEPT ![i].pc = "failed",
                                          ![i].response = NoDoc,
                                          ![i].error = r.error]
           [] r.act = "recurse" ->
                /\ UNCHANGED version
                /\ calls' = [calls EXCEPT ![i].candidateVersion = r.value,
                                          ![i].response = NoDoc,
                                          ![i].reqs = Append(@, Request("_negociateVersion", queryStringToAppend, r.value))]

(* Variants of capabilitiesRequest: the final request is tagged with the   *)
(* largest supported version                                               *)
capabilitiesRequest_lastKey(i) ==
  /\ calls[i].pc = "ensured"
  /\ calls' = [calls EXCEPT ![i].pc = "fetch",
                            ![i].reqs = Append(@, Request("capabilities", queryStringToAppend,
                                                          supportedVersionsKeys[Len(supportedVersionsKeys)]))]
  /\ UNCHANGED <<instance, version, queryStringToAppend>>

(* the final request is tagged with this.version as it is when the request *)
(* is issued, not with the version _ensureVersion returned                 *)
capabilitiesRequest_thisVersion(i) ==
  /\ calls[i].pc = "ensured"
  /\ calls' = [calls EXCEPT ![i].pc = "fetch",
                            ![i].reqs = Append(@, Request("capabilities", queryStringToAppend, version))]
  /\ UNCHANGED <<instance, version, queryStringToAppend>>

(* capabilities() resumes after await client._ensureVersion() and issues   *)
(* the final request                                                       *)
capabilitiesRequest(i) ==
  /\ calls[i].pc = "ensured"
  /\ calls' = [calls EXCEPT ![i].pc = "fetch",
                            ![i].reqs = Append(@, Request("capabilities", queryStringToAppend, calls[i].version))]
  /\ UNCHANGED <<instance, version, queryStringToAppend>>

(* capabilities() resumes after await client._request(...) *)
capabilitiesResult(i) ==
  /\ calls[i].pc = "fetch"
  /\ calls[i].response # NoDoc
  /\ UNCHANGED <<instance, version, queryStringToAppend>>
  /\ IF calls[i].response.status = "error"
     THEN calls' = [calls EXCEPT ![i].pc = "failed",
                                 ![i].response = NoDoc,
                                 ![i].error = RequestError]
     ELSE IF ~HasParseCapabilities(calls[i].version)
     THEN calls' = [calls EXCEPT ![i].pc = "failed",
                                 ![i].response = NoDoc,
                                 ![i].error = NotAFunctionError]
     ELSE calls' = [calls EXCEPT ![i].pc = "done",
                                 ![i].response = NoDoc,
                                 ![i].result = parseCapabilitiesOf(calls[i].version,
                                                                   calls[i].response)]

(* featureTypes() resumes after await this.capabilities() *)
featureTypes(i) ==
  /\ calls[i].pc = "done"
  /\ calls' = [calls EXCEPT ![i].pc = "returned",
                            ![i].returned = <<featureTypesOrEmpty(calls[i].result.object)>>]
  /\ UNCHANGED <<instance, version, queryStringToAppend>>

Next ==
  \/ \E url \in Urls, v \in OptionVersions, q \in OptionQueryStrings :
       constructor(url, v, q)
  \/ \E i \in CallIds : capabilities(i)
  \/ \E i \in CallIds, doc \in Docs \cup FetchDocs : serverReply(i, doc)
  \/ \E i \in CallIds : negociateVersion(i)
  \/ \E i \in CallIds : capabilitiesRequest(i)
  \/ \E i \in CallIds : capabilitiesResult(i)
  \/ \E i \in CallIds : featureTypes(i)

Spec == Init /\ [][Next]_vars

----------------------------------------------------------------------------
(* Vocabulary of the properties *)

(* the version parameters of the requests call i's negotiation has issued *)
ProbeVersions(i) ==
  LET probes == SelectSeq(calls[i].reqs, LAMBDA r : r.by = "_negociateVersion")
  IN  [k \in 1..Len(probes) |-> probes[k].query.version]

(* the failure kind an error stands for *)
ErrorKind(e) ==
  CASE e = UnreadableVersionError -> "UnreadableVersion"
    [] e.message = NoOverlapError(null, null).message -> "NoOverlap"
    [] e = RecoveryError -> "RecoveryExhausted"
    [] e = RequestError -> "TransportFailure"
    [] OTHER -> "Unclassified"

(* a < b in semantic-version order, for versions that have one *)
Smaller(a, b) == semverValid(a) /\ semverValid(b) /\ semverLt(a, b)

HasSmallerMember(bound) == \E m \in SupportedVersionSet : Smaller(m, bound)

(* the largest member of SupportedVersionSet strictly smaller than bound *)
LargestSmallerMember(bound) ==
  CHOOSE m \in SupportedVersionSet :
    /\ Smaller(m, bound)
    /\ \A n \in SupportedVersionSet : Smaller(n, bound) => ~Smaller(m, n)

(* call i's negotiation observes the reply to its probe in this step *)
Observes(i) ==
  /\ calls[i].pc = "probe"
  /\ calls[i].response # NoDoc
  /\ calls'[i] # calls[i]

IsCapabilities(doc) == doc.status = "ok" /\ doc.root = "WFS_Capabilities"

(* the step ends call i's negotiation with version v, without a request *)
SucceedsWith(i, v) ==
  /\ calls'[i].pc = "ensured"
  /\ calls'[i].version = v
  /\ version' = v
  /\ calls'[i].reqs = calls[i].reqs

(* the step ends call i's negotiation with an error, without a request *)
FailsWith(i, kind) ==
  /\ calls'[i].pc = "failed"
  /\ ErrorKind(calls'[i].error) = kind
  /\ calls'[i].reqs = calls[i].reqs
  /\ version' = version

(* the step issues the next probe of call i, with candidate v *)
ProbesNext(i, v) ==
  /\ calls'[i].pc = "probe"
  /\ calls'[i].candidateVersion = v
  /\ calls'[i].response = NoDoc
  /\ Len(calls'[i].reqs) = Len(calls[i].reqs) + 1
  /\ SubSeq(calls'[i].reqs, 1, Len(calls[i].reqs)) = calls[i].reqs
  /\ calls'[i].reqs[Len(calls'[i].reqs)].by = "_negociateVersion"
  /\ calls'[i].reqs[Len(calls'[i].reqs)].query.version = v

----------------------------------------------------------------------------
(* Properties *)

(* C1: a negotiation issues at most |SupportedVersionSet| = 3              *)
(* GetCapabilities requests, whatever the server replies.                  *)
C1_AtMostThreeRequests ==
  \A i \in CallIds : Len(ProbeVersions(i)) <= Cardinality(SupportedVersionSet)

(* C2: when a probe with candidate c is answered by a capabilities root    *)
(* with a valid version d < c that is not supported and has no supported   *)
(* version below it, the negotiation fails with NoSmallerCandidate and     *)
(* issues no further request.                                              *)
C2_NoSmallerCandidate ==
  [][\A i \in CallIds :
       LET c == calls[i].candidateVersion
           doc == calls[i].response
       IN  ( /\ Observes(i)
             /\ IsCapabilities(doc)
             /\ Smaller(doc.version, c)
             /\ doc.version \notin SupportedVersionSet
             /\ ~HasSmallerMember(doc.version) )
           => FailsWith(i, "NoSmallerCandidate")]_vars

(* C3: every request of a negotiation carries a member of                  *)
(* SupportedVersionSet, and each request after the first a version         *)
(* strictly smaller than the one before it.                                *)
C3_SupportedAndDecreasing ==
  \A i \in CallIds :
    LET p == ProbeVersions(i)
    IN  \A k \in 1..Len(p) :
          /\ p[k] \in SupportedVersionSet
          /\ (k > 1 => Smaller(p[k], p[k - 1]))

(* C4: the version field of a client instance is unset or a member of      *)
(* SupportedVersionSet; an unsupported pinned version is rejected, not     *)
(* stored.                                                                 *)
C4_VersionUnsetOrSupported ==
  version = undefined \/ version \in SupportedVersionSet

(* C5: when a probe with candidate c is answered by a capabilities root    *)
(* whose version attribute equals c, the negotiation succeeds with c and   *)
(* issues no further request; an echo of 2.0.0 to the first probe gives    *)
(* 2.0.0 after exactly one request.                                        *)
C5_EchoSucceeds ==
  [][\A i \in CallIds :
       LET c == calls[i].candidateVersion
           doc == calls[i].response
       IN  (Observes(i) /\ IsCapabilities(doc) /\ doc.version = c)
           => /\ SucceedsWith(i, c)
              /\ (Len(calls[i].reqs) = 1 => ProbeVersions(i)' = <<V200>>)]_vars

C5_Witness ==
  \E i \in CallIds :
    /\ calls[i].pc = "ensured"
    /\ calls[i].version = V200
    /\ version = V200
    /\ ProbeVersions(i) = <<V200>>

(* C6: when a probe with candidate c is answered by a capabilities root    *)
(* whose valid version d is smaller than c and supported, the negotiation  *)
(* succeeds with d and issues no further negotiation request.              *)
C6_SupportedDetectedAccepted ==
  [][\A i \in CallIds :
       LET c == calls[i].candidateVersion
           doc == calls[i].response
       IN  ( /\ Observes(i)
             /\ IsCapabilities(doc)
             /\ Smaller(doc.version, c)
             /\ doc.version \in SupportedVersionSet )
           => SucceedsWith(i, doc.version)]_vars

C6_Witness ==
  \E i \in CallIds :
    /\ calls[i].pc = "ensured"
    /\ calls[i].version = V110
    /\ version = V110
    /\ ProbeVersions(i) = <<V200>>

(* C7: when a probe with candidate c is answered by a capabilities root    *)
(* whose valid version d is greater than c, the negotiation fails with     *)
(* the NoOverlap error carrying d and c and issues no further request, at  *)
(* the first probe and at every later one.                                 *)
C7_NoOverlap ==
  [][\A i \in CallIds :
       LET c == calls[i].candidateVersion
           doc == calls[i].response
       IN  (Observes(i) /\ IsCapabilities(doc) /\ Smaller(c, doc.version))
           => /\ FailsWith(i, "NoOverlap")
              /\ calls'[i].error = NoOverlapError(doc.version, c)]_vars

C7_Witness ==
  \E i \in CallIds :
    /\ calls[i].pc = "failed"
    /\ calls[i].error = NoOverlapError(V150, V110)
    /\ ProbeVersions(i) = <<V200, V110>>

(* C8: when a probe with candidate c is answered by a document whose root  *)
(* is not WFS_Capabilities, the next probe uses the largest supported      *)
(* version strictly smaller than c, and without one the negotiation fails  *)
(* with RecoveryExhausted; a server that never sends a capabilities root   *)
(* is probed with 2.0.0, 1.1.0, 1.0.0 and the negotiation fails after      *)
(* three requests.                                                         *)
C8_Recovery ==
  [][\A i \in CallIds :
       LET c == calls[i].candidateVersion
           doc == calls[i].response
       IN  (Observes(i) /\ doc.status = "ok" /\ ~IsCapabilities(doc))
           => IF HasSmallerMember(c)
              THEN ProbesNext(i, LargestSmallerMember(c))
              ELSE FailsWith(i, "RecoveryExhausted")]_vars

(* C9: when a probe with candidate c is answered by a capabilities root    *)
(* whose valid version d is smaller than c and not supported, the next     *)
(* probe uses the largest supported version strictly smaller than d;       *)
(* 2.0.0 answered with 1.0.5 is followed by 1.0.0, and an echo of 1.0.0    *)
(* gives success after two requests.                                       *)
C9_NextBelowDetected ==
  [][\A i \in CallIds :
       LET c == calls[i].candidateVersion
           doc == calls[i].response
       IN  /\ ( /\ Observes(i)
                /\ IsCapabilities(doc)
                /\ Smaller(doc.version, c)
                /\ doc.version \notin SupportedVersionSet
                /\ HasSmallerMember(doc.version) )
              => ProbesNext(i, LargestSmallerMember(doc.version))
           /\ ( /\ Observes(i)
                /\ IsCapabilities(doc)
                /\ c = V200
                /\ doc.version = V105 )
              => ProbesNext(i, V100)
           /\ ( /\ Observes(i)
                /\ IsCapabilities(doc)
                /\ ProbeVersions(i) = <<V200, V100>>
                /\ doc.version = V100 )
              => SucceedsWith(i, V100)]_vars

C9_Witness ==
  \E i \in CallIds :
    /\ calls[i].pc = "ensured"
    /\ calls[i].version = V100
    /\ ProbeVersions(i) = <<V200, V100>>

(* C10: when a probe is answered by a capabilities root whose version      *)
(* attribute is absent or not a valid version string, the negotiation      *)
(* fails with UnreadableVersion and issues no further request.             *)
C10_UnreadableVersion ==
  [][\A i \in CallIds :
       LET doc == calls[i].response
       IN  ( /\ Observes(i)
             /\ IsCapabilities(doc)
             /\ (doc.version = null \/ ~semverValid(doc.version)) )
           => FailsWith(i, "UnreadableVersion")]_vars

C10_Witness ==
  \E i \in CallIds :
    /\ calls[i].pc = "failed"
    /\ ErrorKind(calls[i].error) = "UnreadableVersion"
    /\ Len(ProbeVersions(i)) = 2

(* the largest member of SupportedVersionSet *)
LargestMember ==
  CHOOSE m \in SupportedVersionSet :
    \A n \in SupportedVersionSet : ~Smaller(m, n)

(* the requests call i has issued are all probes of its negotiation *)
OnlyProbes(i) == Len(ProbeVersions(i)) = Len(calls[i].reqs)

(* C11: once the instance has a version, a later call issues exactly one   *)
(* request, tagged with the version that was cached when the call was      *)
(* made, starts no negotiation and does not change the cached version,     *)
(* whatever the server replies.                                            *)
C11_CachedVersionReused ==
  [][\A i \in CallIds :
       /\ (calls[i].pc = "idle" /\ Truthy(version) /\ calls'[i] # calls[i])
          => /\ calls'[i].pc = "ensured"
             /\ calls'[i].version = version
             /\ calls'[i].reqs = <<>>
             /\ version' = version
       /\ ( /\ calls[i].pc \in {"ensured", "fetch", "done"}
            /\ ProbeVersions(i) = <<>>
            /\ calls'[i] # calls[i] )
          => /\ version' = version
             /\ calls'[i].pc \in {"fetch", "done", "failed", "returned"}
             /\ calls'[i].version = calls[i].version
             /\ Len(calls'[i].reqs) = 1
             /\ calls'[i].reqs[1].by = "capabilities"
             /\ calls'[i].reqs[1].query.version = calls[i].version]_vars

C11_Witness ==
  \E i, j \in CallIds :
    /\ ProbeVersions(j) # <<>>
    /\ calls[j].pc \in {"ensured", "fetch", "done"}
    /\ calls[i].pc = "done"
    /\ ProbeVersions(i) = <<>>
    /\ Len(calls[i].reqs) = 1
    /\ calls[i].reqs[1].query.version = version

(* C12: on one unpinned client at most one negotiation is ever started,    *)
(* for every interleaving of its calls.                                    *)
C12_OneNegotiation ==
  Cardinality({i \in CallIds : ProbeVersions(i) # <<>>}) <= 1

(* C13: on a client constructed with a supported pinned version no probe   *)
(* is ever issued, each call issues exactly one request, carrying the      *)
(* pinned version, and the instance's version never changes.               *)
C13_PinnedNeverNegotiates ==
  [][( /\ version \in SupportedVersionSet
       /\ \A i \in CallIds : ProbeVersions(i) = <<>> )
     => /\ version' = version
        /\ \A i \in CallIds :
             /\ ProbeVersions(i)' = <<>>
             /\ Len(calls'[i].reqs) =
                  (IF calls'[i].pc \in {"idle", "ensured"} THEN 0 ELSE 1)
             /\ \A k \in 1..Len(calls'[i].reqs) :
                  /\ calls'[i].reqs[k].by = "capabilities"
                  /\ calls'[i].reqs[k].query.version = version]_vars

C13_Witness ==
  /\ version = V110
  /\ \A i \in CallIds :
       /\ calls[i].pc = "done"
       /\ Len(calls[i].reqs) = 1
       /\ calls[i].reqs[1].query.version = V110

(* C14: at no point are two negotiation probes of the instance             *)
(* outstanding at the same time.                                           *)
C14_ProbesSequential ==
  Cardinality({i \in CallIds : calls[i].pc = "probe" /\ calls[i].response = NoDoc}) <= 1

(* C15: when a negotiation probe fails at the transport or XML-parse       *)
(* boundary, the failure is propagated as it is: no further request, no    *)
(* fallback to a smaller candidate, no negotiation failure kind.           *)
C15_TransportFailurePropagates ==
  [][\A i \in CallIds :
       (Observes(i) /\ calls[i].response.status = "error")
       => /\ FailsWith(i, "TransportFailure")
          /\ calls'[i].error = RequestError
          /\ calls'[i].candidateVersion = calls[i].candidateVersion]_vars

C15_Witness ==
  \E i \in CallIds :
    /\ calls[i].pc = "failed"
    /\ calls[i].error = RequestError
    /\ ProbeVersions(i) = <<V200, V110>>
    /\ OnlyProbes(i)

(* C16: every request carries service = 'WFS', request = 'GetCapabilities' *)
(* and the target version, whatever the extra query parameters are.        *)
C16_FixedQueryParameters ==
  \A i \in CallIds :
    \A k \in 1..Len(calls[i].reqs) :
      LET r == calls[i].reqs[k]
      IN  /\ r.query.service = <<"WFS">>
          /\ r.query.request = <<"GetCapabilities">>
          /\ r.by = "capabilities" => r.query.version = calls[i].version
          /\ (calls[i].pc = "probe" /\ k = Len(calls[i].reqs))
             => r.query.version = calls[i].candidateVersion

(* C17: a negotiation that ends in a failure leaves the cached version as  *)
(* it was (unset), the failing call issues no final request and retries    *)
(* nothing; the version is only ever set by a successful negotiation, and  *)
(* a call made while it is unset starts a negotiation from the largest     *)
(* supported version.                                                      *)
C17_FailureIsTerminal ==
  [][\A i \in CallIds :
       /\ (Observes(i) /\ calls'[i].pc = "failed")
          => /\ version' = version
             /\ calls'[i].reqs = calls[i].reqs
             /\ OnlyProbes(i)'
       /\ calls[i].pc = "failed" => calls'[i] = calls[i]
       /\ (calls[i].pc = "idle" /\ ~Truthy(version) /\ calls'[i] # calls[i])
          => /\ calls'[i].pc = "probe"
             /\ calls'[i].candidateVersion = LargestMember
             /\ ProbeVersions(i)' = <<LargestMember>>
       /\ (instance = "ok" /\ version' # version)
          => \E j \in CallIds : calls[j].pc = "probe" /\ calls'[j].pc = "ensured"]_vars

C17_Witness ==
  /\ version = undefined
  /\ calls[1].pc = "failed"
  /\ ErrorKind(calls[1].error) = "RecoveryExhausted"
  /\ OnlyProbes(1)
  /\ calls[2].pc = "probe"
  /\ ProbeVersions(2) = <<V200>>

(* C18: on an unpinned client a call whose negotiation succeeds with n     *)
(* probes issues n + 1 requests: the final request comes after the         *)
(* negotiation has returned and carries the negotiated version, and the    *)
(* object returned is the final request's reply mapped with the schemas    *)
(* of the negotiated version.                                              *)
C18_FinalFetchAfterNegotiation ==
  [][\A i \in CallIds :
       /\ ProbeVersions(i)' # <<>>
          => /\ calls'[i].pc \in {"probe", "ensured"} => OnlyProbes(i)'
             /\ calls'[i].pc \in {"fetch", "done", "returned"}
                => LET n == Len(ProbeVersions(i)')
                       r == calls'[i].reqs
                   IN  /\ Len(r) = n + 1
                       /\ \A k \in 1..n : r[k].by = "_negociateVersion"
                       /\ r[n + 1].by = "capabilities"
                       /\ r[n + 1].query.version = calls'[i].version
                       /\ calls'[i].version \in SupportedVersionSet
             /\ calls'[i].pc \in {"done", "returned"}
                => calls'[i].result.bundle = calls'[i].version
       /\ (Observes(i) /\ calls'[i].pc = "ensured")
          => /\ calls'[i].version = calls[i].response.version
             /\ calls'[i].result = NoResult
       /\ (calls[i].pc = "fetch" /\ calls'[i].pc = "done")
          => calls'[i].result.object = parseCapabilities(calls[i].response)]_vars

C18_Witness ==
  \E i \in CallIds :
    /\ calls[i].pc = "done"
    /\ ProbeVersions(i) = <<V200, V100>>
    /\ Len(calls[i].reqs) = 3
    /\ calls[i].reqs[3].query.version = V100
    /\ calls[i].result.bundle = V100
    /\ Len(calls[i].result.object["featureTypes"]) = 2

(* C19: the object mapped from a capabilities document always has a        *)
(* featureTypes list with one entry per FeatureType element, in document   *)
(* order, empty when there is none, and featureTypes() returns that list,  *)
(* never undefined or null.                                                *)
C19_FeatureTypesAlwaysList ==
  [][\A i \in CallIds :
       /\ (calls[i].pc = "fetch" /\ calls'[i].pc = "done")
          => LET nodes == find(calls[i].response, "./wfs:FeatureTypeList/wfs:FeatureType")
                 object == calls'[i].result.object
             IN  /\ HasKey(object, "featureTypes")
                 /\ Len(object["featureTypes"]) = Len(nodes)
                 /\ \A k \in 1..Len(nodes) :
                      object["featureTypes"][k]["name"]
                        = Head(find(nodes[k], "./wfs:Name")).text
                 /\ nodes = <<>> => object["featureTypes"] = <<>>
       /\ (calls[i].pc = "done" /\ calls'[i].pc = "returned")
          => /\ HasKey(calls[i].result.object, "featureTypes")
             /\ calls'[i].returned = <<calls[i].result.object["featureTypes"]>>
             /\ calls'[i].result = calls[i].result]_vars

C19_Witness ==
  \E i \in CallIds :
    /\ calls[i].pc = "returned"
    /\ calls[i].result.object["featureTypes"] = <<>>
    /\ calls[i].returned = << <<>> >>

====
